---- MODULE Spec2Model ----
(***************************************************************************)
(* A model of src/main.py, the collage batcher: filename parsing           *)
(* (parse_file_info, has_b_suffix, natural_sort_key), the duplicate and    *)
(* variant policy (remove_duplicates), the label fitter (draw_label) and   *)
(* the page loop of main with create_collage.                              *)
(*                                                                         *)
(* A Python str is a sequence of one-character strings, so that slicing,   *)
(* splitting, case folding and stripping are computed and not assumed.     *)
(***************************************************************************)
EXTENDS Integers, Sequences, FiniteSets, TLC

VARIABLES
    \* parse_file_info / has_b_suffix applied to one path
    path, info, marker, ppc,
    \* remove_duplicates
    files, groups, gi, result, duplicates_removed, b_files_removed, dpc,
    \* main and create_collage
    gridSize, ufiles, i, batch, cols, rows, idx, canvas, written, mpc,
    \* draw_label
    label, text, w, h, fontKind, pad, size, size0, maxw, tw, th, li, lpc

parseVars == <<path, info, marker, ppc>>
dedupVars == <<files, groups, gi, result, duplicates_removed, b_files_removed, dpc>>
mainVars == <<gridSize, ufiles, i, batch, cols, rows, idx, canvas, written, mpc>>
labelVars == <<label, text, w, h, fontKind, pad, size, size0, maxw, tw, th, li, lpc>>
vars == <<parseVars, dedupVars, mainVars, labelVars>>

----------------------------------------------------------------------------
(* Bounds of the model *)

\* longest filename stem drawn for the parser
MaxStem == 4
\* most files handed to remove_duplicates
MaxFiles == 3
\* most files in the deduplicated list that main paginates
MaxUnique == 27
\* largest grid side tried (the source ships GRID_SIZE = 5)
MaxGrid == 5
\* longest caption handed to draw_label
MaxText == 4
\* most leading zeros added when a filename is re-padded
MaxPad == 2

----------------------------------------------------------------------------
(* Characters *)

Digits == {"0", "1", "2", "3", "4", "5", "6", "7", "8", "9"}

UPPER == <<"A", "B", "C", "D", "E", "F", "G", "H", "I", "J", "K", "L", "M",
           "N", "O", "P", "Q", "R", "S", "T", "U", "V", "W", "X", "Y", "Z">>

LOWER == <<"a", "b", "c", "d", "e", "f", "g", "h", "i", "j", "k", "l", "m",
           "n", "o", "p", "q", "r", "s", "t", "u", "v", "w", "x", "y", "z">>

\* the code points' order, for the characters file names are made of
CODEPOINTS == <<" ", "-", ".", "/">> \o
              <<"0", "1", "2", "3", "4", "5", "6", "7", "8", "9">> \o
              UPPER \o <<"_">> \o LOWER

LowerMap == [c \in {UPPER[k] : k \in 1..Len(UPPER)} |->
                LOWER[CHOOSE k \in 1..Len(UPPER) : UPPER[k] = c]]

OrdMap == [c \in {CODEPOINTS[k] : k \in 1..Len(CODEPOINTS)} |->
                CHOOSE k \in 1..Len(CODEPOINTS) : CODEPOINTS[k] = c]

\* str.lower() on one character
LowerChar(c) == IF c \in DOMAIN LowerMap THEN LowerMap[c] ELSE c

\* str.lower()
lower(s) == [k \in 1..Len(s) |-> LowerChar(s[k])]

\* str.isdigit(): non-empty and every character a digit
isdigit(s) == Len(s) > 0 /\ \A k \in 1..Len(s) : s[k] \in Digits

\* str.endswith(suf)
endswith(s, suf) ==
    Len(s) >= Len(suf) /\ SubSeq(s, Len(s) - Len(suf) + 1, Len(s)) = suf

\* s[:n] for 0 <= n
Take(s, n) == SubSeq(s, 1, IF n < Len(s) THEN n ELSE Len(s))

\* s[n:] for 0 <= n (0-based start)
Drop(s, n) == SubSeq(s, n + 1, Len(s))

\* number of leading characters of s equal to c
RECURSIVE LeadingCount(_, _)
LeadingCount(s, c) ==
    IF Len(s) > 0 /\ s[1] = c THEN 1 + LeadingCount(Tail(s), c) ELSE 0

\* number of trailing characters of s equal to c
RECURSIVE TrailingCount(_, _)
TrailingCount(s, c) ==
    IF Len(s) > 0 /\ s[Len(s)] = c
    THEN 1 + TrailingCount(SubSeq(s, 1, Len(s) - 1), c) ELSE 0

\* str.lstrip(c)
lstrip(s, c) == Drop(s, LeadingCount(s, c))

\* str.strip() where the only white space is the blank
strip(s) ==
    LET t == lstrip(s, " ") IN SubSeq(t, 1, Len(t) - TrailingCount(t, " "))

\* index of the last occurrence of c in s, 0 when there is none (str.rfind + 1)
RECURSIVE rfind(_, _)
rfind(s, c) ==
    IF Len(s) = 0 THEN 0
    ELSE IF s[Len(s)] = c THEN Len(s)
    ELSE rfind(SubSeq(s, 1, Len(s) - 1), c)

\* index of the first occurrence of c in s, 0 when there is none
RECURSIVE find(_, _)
find(s, c) ==
    IF Len(s) = 0 THEN 0
    ELSE IF s[1] = c THEN 1
    ELSE LET r == find(Tail(s), c) IN IF r = 0 THEN 0 ELSE r + 1

\* os.path.basename: what follows the last '/'
basename(p) == Drop(p, rfind(p, "/"))

\* os.path.splitext(name)[0] for a name without '/': cut at the last dot unless
\* only dots precede it
splitext_root(name) ==
    LET dot == rfind(name, ".") IN
    IF dot > 0 /\ \E k \in 1..(dot - 1) : name[k] # "."
    THEN SubSeq(name, 1, dot - 1)
    ELSE name

\* ' '.join(parts)
RECURSIVE join(_)
join(parts) ==
    IF Len(parts) = 0 THEN <<>>
    ELSE IF Len(parts) = 1 THEN parts[1]
    ELSE parts[1] \o <<" ">> \o join(Tail(parts))

\* re.split(r'[-_]+', s): the pieces between maximal runs of '-' and '_';
\* a leading or trailing run leaves an empty piece
RECURSIVE SplitRec(_, _, _, _)
SplitRec(s, parts, cur, inSep) ==
    IF Len(s) = 0 THEN Append(parts, cur)
    ELSE IF s[1] \in {"-", "_"}
         THEN IF inSep THEN SplitRec(Tail(s), parts, cur, TRUE)
              ELSE SplitRec(Tail(s), Append(parts, cur), <<>>, TRUE)
         ELSE SplitRec(Tail(s), parts, Append(cur, s[1]), FALSE)

split_seps(s) == SplitRec(s, <<>>, <<>>, FALSE)

\* [p for p in parts if p != x]
RECURSIVE without(_, _)
without(parts, x) ==
    IF Len(parts) = 0 THEN <<>>
    ELSE IF parts[1] = x THEN without(Tail(parts), x)
    ELSE <<parts[1]>> \o without(Tail(parts), x)

----------------------------------------------------------------------------
(* Configuration (src/main.py lines 7-11) *)

INPUT_DIR == <<".", "/", "i", "n", "p", "u", "t">>
GRID_SIZE == 5
TILE_SIZE == 600

\* os.path.join(folder, f)
join_path(folder, f) == folder \o <<"/">> \o f

----------------------------------------------------------------------------
(* parse_file_info *)

\* the stem parse_file_info works on: the '-2' duplicate suffix is cut
parse_stem(p) ==
    LET stem == splitext_root(basename(p)) IN
    IF endswith(stem, <<"-", "2">>) THEN SubSeq(stem, 1, Len(stem) - 2) ELSE stem

\* the last all-digit part, else the last part
pick_ident(parts) ==
    IF \E k \in 1..Len(parts) : isdigit(parts[k])
    THEN parts[CHOOSE k \in 1..Len(parts) :
                  /\ isdigit(parts[k])
                  /\ \A m \in (k + 1)..Len(parts) : ~isdigit(parts[m])]
    ELSE parts[Len(parts)]

\* leading zeros stripped from a numeric identifier, `or ident` when nothing is left
CaptionOf(ident, stem) ==
    IF Len(ident) > 0 /\ isdigit(ident)
    THEN LET t == lstrip(ident, "0") IN IF Len(t) > 0 THEN t ELSE ident
    ELSE IF Len(ident) > 0 THEN ident ELSE stem

parse_file_info(p) ==
    LET stem == parse_stem(p)
        parts == split_seps(stem)
        ident == pick_ident(parts)
        coll_parts ==
            IF Len(ident) > 0 /\ parts[Len(parts)] = ident
            THEN SubSeq(parts, 1, Len(parts) - 1)
            ELSE IF Len(ident) > 0 THEN without(parts, ident) ELSE parts
        joined == strip(join(coll_parts))
        collection == IF Len(joined) > 0 THEN joined ELSE stem
        caption == CaptionOf(ident, stem)
    IN  [collection |-> collection,
         number |-> ident,
         caption |-> caption,
         group_key |-> <<lower(collection), lower(caption)>>]

normalize_caption(p) == parse_file_info(p).caption

----------------------------------------------------------------------------
(* has_b_suffix *)

has_b_suffix(p) ==
    LET name == splitext_root(basename(p))
        cut == IF find(name, "-") > 0 THEN SubSeq(name, 1, find(name, "-") - 1)
               ELSE name
    IN  endswith(lower(cut), <<"b">>)

----------------------------------------------------------------------------
(* natural_sort_key and sorted(..., key=natural_sort_key) *)

DigitVal(c) == OrdMap[c] - OrdMap["0"]

\* int(text) for a run of digits
RECURSIVE ToInt(_)
ToInt(ds) ==
    IF Len(ds) = 0 THEN 0
    ELSE 10 * ToInt(SubSeq(ds, 1, Len(ds) - 1)) + DigitVal(ds[Len(ds)])

\* re.split(r'(\d+)', s) with each digit run turned into its integer and each
\* other run lower-cased: texts at the odd places, integers at the even places
RECURSIVE KeyRec(_, _, _, _)
KeyRec(s, key, cur, inDigits) ==
    IF Len(s) = 0
    THEN IF inDigits THEN Append(Append(key, ToInt(cur)), <<>>)
         ELSE Append(key, lower(cur))
    ELSE IF s[1] \in Digits
         THEN IF inDigits THEN KeyRec(Tail(s), key, Append(cur, s[1]), TRUE)
              ELSE KeyRec(Tail(s), Append(key, lower(cur)), <<s[1]>>, TRUE)
         ELSE IF inDigits
              THEN KeyRec(Tail(s), Append(key, ToInt(cur)), <<s[1]>>, FALSE)
              ELSE KeyRec(Tail(s), key, Append(cur, s[1]), FALSE)

natural_sort_key(p) == KeyRec(basename(p), <<>>, <<>>, FALSE)

\* Python's str < str: by code points, a proper prefix first
RECURSIVE StrLess(_, _)
StrLess(a, b) ==
    IF Len(b) = 0 THEN FALSE
    ELSE IF Len(a) = 0 THEN TRUE
    ELSE IF a[1] = b[1] THEN StrLess(Tail(a), Tail(b))
    ELSE OrdMap[a[1]] < OrdMap[b[1]]

\* Python's list < list on two sort keys, k the place compared (from 1)
RECURSIVE KeyLessFrom(_, _, _)
KeyLessFrom(a, b, k) ==
    IF k > Len(b) THEN FALSE
    ELSE IF k > Len(a) THEN TRUE
    ELSE IF a[k] = b[k] THEN KeyLessFrom(a, b, k + 1)
    ELSE IF k % 2 = 1 THEN StrLess(a[k], b[k]) ELSE a[k] < b[k]

KeyLess(a, b) == KeyLessFrom(a, b, 1)

\* x put into the sorted list fs behind every element that is not greater
InsertSorted(fs, x) ==
    LET later == {k \in 1..Len(fs) :
                      KeyLess(natural_sort_key(x.path), natural_sort_key(fs[k].path))}
        at == IF later = {} THEN Len(fs) + 1
              ELSE CHOOSE k \in later : \A m \in later : k <= m
    IN  SubSeq(fs, 1, at - 1) \o <<x>> \o SubSeq(fs, at, Len(fs))

\* sorted(fs, key=natural_sort_key): stable
RECURSIVE sorted(_)
sorted(fs) ==
    IF Len(fs) = 0 THEN <<>>
    ELSE InsertSorted(sorted(SubSeq(fs, 1, Len(fs) - 1)), fs[Len(fs)])

----------------------------------------------------------------------------
(* remove_duplicates *)

\* an image file: its path and os.path.getsize of it
File(p, sz) == [path |-> p, size |-> sz]

\* [f for f in fs if has_b_suffix(f) = b]
RECURSIVE FilterB(_, _)
FilterB(fs, b) ==
    IF Len(fs) = 0 THEN <<>>
    ELSE IF has_b_suffix(fs[1].path) = b THEN <<fs[1]>> \o FilterB(Tail(fs), b)
    ELSE FilterB(Tail(fs), b)

\* groups.setdefault(key, []).append(filepath); the dict keeps insertion order
AddToGroup(gs, f) ==
    LET key == parse_file_info(f.path).group_key IN
    IF \E k \in 1..Len(gs) : gs[k].key = key
    THEN [k \in 1..Len(gs) |->
            IF gs[k].key = key
            THEN [gs[k] EXCEPT !.file_list = Append(@, f)]
            ELSE gs[k]]
    ELSE Append(gs, [key |-> key, file_list |-> <<f>>])

\* a max() that takes the first file whatever its size
best_file_first(fs) == fs[1]

\* max(fs, key=os.path.getsize): the first of the largest
best_file(fs) ==
    fs[CHOOSE k \in 1..Len(fs) :
          /\ \A m \in 1..Len(fs) : fs[m].size <= fs[k].size
          /\ \A m \in 1..(k - 1) : fs[m].size < fs[k].size]

\* the excluded-variant counter after one group
CountB(b, files_without_b, files_with_b) ==
    LET b1 == b + Len(files_with_b) IN
    IF Len(files_without_b) = 1 /\ Len(files_with_b) > 0
    THEN b1 + Len(files_with_b)
    ELSE b1

\* a policy that lets a variant-marked file stand in for a missing primary
KeepOf_variant_fallback(files_without_b, files_with_b) ==
    IF Len(files_without_b) = 0
    THEN (IF Len(files_with_b) > 0 THEN <<files_with_b[1]>> ELSE <<>>)
    ELSE IF Len(files_without_b) > 1 THEN <<best_file(files_without_b)>>
    ELSE <<files_without_b[1]>>

\* what one group adds to the result
KeepOf(files_without_b, files_with_b) ==
    IF Len(files_without_b) = 0 THEN <<>>
    ELSE IF Len(files_without_b) > 1 THEN <<best_file(files_without_b)>>
    ELSE <<files_without_b[1]>>

\* one pass of the loop over groups.items()
ProcessGroup(acc, g) ==
    LET files_without_b == FilterB(g.file_list, FALSE)
        files_with_b == FilterB(g.file_list, TRUE)
    IN  [result |-> acc.result \o KeepOf(files_without_b, files_with_b),
         duplicates_removed |->
            IF Len(files_without_b) > 1
            THEN acc.duplicates_removed + Len(files_without_b) - 1
            ELSE acc.duplicates_removed,
         b_files_removed |-> CountB(acc.b_files_removed, files_without_b, files_with_b)]

RECURSIVE GroupAll(_, _)
GroupAll(gs, fs) ==
    IF Len(fs) = 0 THEN gs ELSE GroupAll(AddToGroup(gs, fs[1]), Tail(fs))

RECURSIVE DecideAll(_, _)
DecideAll(acc, gs) ==
    IF Len(gs) = 0 THEN acc ELSE DecideAll(ProcessGroup(acc, gs[1]), Tail(gs))

\* the list remove_duplicates returns
remove_duplicates(fs) ==
    sorted(DecideAll([result |-> <<>>, duplicates_removed |-> 0, b_files_removed |-> 0],
                     GroupAll(<<>>, fs)).result)

----------------------------------------------------------------------------
(* Inputs *)

\* the characters stems are drawn from: letters with both cases of 'b', digits
\* with '0' and '2', and both separators
StemChars == {"a", "b", "B", "0", "2", "7", "-", "_"}

Stems == UNION {[1..k -> StemChars] : k \in 1..MaxStem}

EXT == <<".", "j", "p", "g">>

PathOf(stem) == join_path(INPUT_DIR, stem \o EXT)

\* file names of one folder: three primaries (one of them a "-2" reshoot) and a
\* variant-marked shot of item ('ab', '7'), a lone variant-marked shot of item
\* ('b', '1'), and the only shot of item ('c', '3')
StemPool ==
    { <<"a", "b", "_", "0", "7">>,
      <<"a", "b", "_", "7", "-", "2">>,
      <<"A", "B", "_", "0", "0", "7">>,
      <<"A", "b", "-", "0", "7">>,
      <<"b", "-", "1">>,
      <<"c", "_", "3">> }

\* byte sizes a file may have
SIZES == {10, 30, 50}

\* the lists of k distinct files of the pool, in any order, with any sizes
FileLists(k) ==
    { [j \in 1..k |-> File(PathOf(names[j]), sizes[j])] :
        names \in {f \in [1..k -> StemPool] : \A a, b \in 1..k : f[a] = f[b] => a = b},
        sizes \in [1..k -> SIZES] }

NULL == "null"

ParseIdle == path = <<>> /\ info = NULL /\ marker = NULL /\ ppc = "idle"

DedupIdle ==
    /\ files = <<>> /\ groups = <<>> /\ gi = 0 /\ result = <<>>
    /\ duplicates_removed = 0 /\ b_files_removed = 0 /\ dpc = "idle"

MainIdle ==
    /\ gridSize = 0 /\ ufiles = <<>> /\ i = 0 /\ batch = <<>> /\ cols = 0 /\ rows = 0
    /\ idx = 0 /\ canvas = <<>> /\ written = <<>> /\ mpc = "idle"

LabelIdle ==
    /\ label = <<>> /\ text = <<>> /\ w = 0 /\ h = 0 /\ fontKind = NULL /\ pad = 0 /\ size = 0
    /\ size0 = 0 /\ maxw = 0 /\ tw = 0 /\ th = 0 /\ li = 0 /\ lpc = "idle"

----------------------------------------------------------------------------
(* SpecParse: parse_file_info and has_b_suffix on one file name *)

InitParse ==
    /\ path \in {PathOf(stem) : stem \in Stems}
    /\ info = NULL /\ marker = NULL /\ ppc = "start"
    /\ DedupIdle /\ MainIdle /\ LabelIdle

ParseFileInfo ==
    /\ ppc = "start"
    /\ info' = parse_file_info(path)
    /\ ppc' = "parsed"
    /\ UNCHANGED <<path, marker, dedupVars, mainVars, labelVars>>

HasBSuffix ==
    /\ ppc = "parsed"
    /\ marker' = has_b_suffix(path)
    /\ ppc' = "done"
    /\ UNCHANGED <<path, info, dedupVars, mainVars, labelVars>>

NextParse == ParseFileInfo \/ HasBSuffix

SpecParse == InitParse /\ [][NextParse]_vars

----------------------------------------------------------------------------
(* SpecDedup: remove_duplicates on one list of files *)

InitDedup ==
    /\ files \in UNION {FileLists(k) : k \in 1..MaxFiles}
    /\ groups = <<>> /\ gi = 1 /\ result = <<>>
    /\ duplicates_removed = 0 /\ b_files_removed = 0 /\ dpc = "group"
    /\ ParseIdle /\ MainIdle /\ LabelIdle

\* lines 89-91: one pass of the grouping loop
GroupFile ==
    /\ dpc = "group"
    /\ groups' = AddToGroup(groups, files[gi])
    /\ IF gi < Len(files)
       THEN gi' = gi + 1 /\ dpc' = "group"
       ELSE gi' = 1 /\ dpc' = "decide"
    /\ UNCHANGED <<files, result, duplicates_removed, b_files_removed>>
    /\ UNCHANGED <<parseVars, mainVars, labelVars>>

\* lines 98-146: one pass of the loop over the groups
DecideGroup ==
    /\ dpc = "decide"
    /\ LET acc == ProcessGroup([result |-> result,
                                duplicates_removed |-> duplicates_removed,
                                b_files_removed |-> b_files_removed], groups[gi])
       IN  /\ result' = acc.result
           /\ duplicates_removed' = acc.duplicates_removed
           /\ b_files_removed' = acc.b_files_removed
    /\ IF gi < Len(groups)
       THEN gi' = gi + 1 /\ dpc' = "decide"
       ELSE gi' = 0 /\ dpc' = "sort"
    /\ UNCHANGED <<files, groups>>
    /\ UNCHANGED <<parseVars, mainVars, labelVars>>

\* lines 148-153: the counts are reported and the sorted result returned
ReturnSorted ==
    /\ dpc = "sort"
    /\ result' = sorted(result)
    /\ dpc' = "done"
    /\ UNCHANGED <<files, groups, gi, duplicates_removed, b_files_removed>>
    /\ UNCHANGED <<parseVars, mainVars, labelVars>>

NextDedup == GroupFile \/ DecideGroup \/ ReturnSorted

SpecDedup == InitDedup /\ [][NextDedup]_vars

----------------------------------------------------------------------------
(* SpecMain: the page loop of main, with create_collage, over the list that
   remove_duplicates returned.  The files of that list are named by their
   place in it. *)

\* math.ceil(n / d) for n >= 0, d >= 1
ceil_div(n, d) == (n + d - 1) \div d

images_per_collage(g) == g * g

\* a page count that rounds down and loses the short last page
total_collages_floor(fs, g) == Len(fs) \div images_per_collage(g)

total_collages(fs, g) == ceil_div(Len(fs), images_per_collage(g))

\* files[start:end] of pass p (from 0) of the loop
page_batch(fs, g, p) ==
    LET start == p * images_per_collage(g)
        stop == IF start + images_per_collage(g) < Len(fs)
                THEN start + images_per_collage(g) ELSE Len(fs)
    IN  SubSeq(fs, start + 1, stop)

\* a column count without the small-batch case
choose_cols_always_grid(n, g) == g

\* the column count of a batch of n files (lines 311-319)
choose_cols(n, g) ==
    IF n = images_per_collage(g) THEN g
    ELSE IF n <= 4 THEN (IF n < 2 THEN n ELSE 2)
    ELSE g

\* create_collage, line 216
collage_rows(n, c) == ceil_div(n, c)

\* the tile pasted for place k (from 0) of the batch: divmod(idx, cols)
tile_at(b, k, c) == [file |-> b[k + 1], r |-> k \div c, c |-> k % c]

InitMain ==
    /\ gridSize \in 1..MaxGrid
    /\ \E n \in 0..MaxUnique : ufiles = [j \in 1..n |-> j]
    /\ i = 0 /\ batch = <<>> /\ cols = 0 /\ rows = 0 /\ idx = 0
    /\ canvas = <<>> /\ written = <<>> /\ mpc = "loop"
    /\ ParseIdle /\ DedupIdle /\ LabelIdle

\* lines 305-321 and 215-224: the batch, its columns, and an empty canvas
BeginPage ==
    /\ mpc = "loop"
    /\ i < total_collages(ufiles, gridSize)
    /\ batch' = page_batch(ufiles, gridSize, i)
    /\ cols' = choose_cols(Len(batch'), gridSize)
    /\ rows' = collage_rows(Len(batch'), cols')
    /\ idx' = 0 /\ canvas' = <<>>
    /\ mpc' = "compose"
    /\ UNCHANGED <<gridSize, ufiles, i, written>>
    /\ UNCHANGED <<parseVars, dedupVars, labelVars>>

\* lines 244-253: the next tile is opened, fitted, pasted and labelled
PasteTile ==
    /\ mpc = "compose"
    /\ idx < Len(batch)
    /\ canvas' = Append(canvas, tile_at(batch, idx, cols))
    /\ idx' = idx + 1
    /\ UNCHANGED <<gridSize, ufiles, i, batch, cols, rows, written, mpc>>
    /\ UNCHANGED <<parseVars, dedupVars, labelVars>>

\* an unreadable tile that is skipped and the page carried on with
TileSkipped ==
    /\ mpc = "compose"
    /\ idx < Len(batch)
    /\ idx' = idx + 1
    /\ UNCHANGED <<gridSize, ufiles, i, batch, cols, rows, canvas, written, mpc>>
    /\ UNCHANGED <<parseVars, dedupVars, labelVars>>

\* line 248: Image.open raises; nothing catches it and the run ends
TileUnreadable ==
    /\ mpc = "compose"
    /\ idx < Len(batch)
    /\ mpc' = "crashed"
    /\ UNCHANGED <<gridSize, ufiles, i, batch, cols, rows, idx, canvas, written>>
    /\ UNCHANGED <<parseVars, dedupVars, labelVars>>

\* lines 327-328: the finished canvas is saved as collage_{i+1}.jpg
SavePage ==
    /\ mpc = "compose"
    /\ idx = Len(batch)
    /\ written' = Append(written,
                         [index |-> i + 1, tiles |-> canvas, cols |-> cols, rows |-> rows])
    /\ i' = i + 1
    /\ mpc' = "loop"
    /\ UNCHANGED <<gridSize, ufiles, batch, cols, rows, idx, canvas>>
    /\ UNCHANGED <<parseVars, dedupVars, labelVars>>

\* line 328: canvas.save raises; nothing catches it and the run ends
SaveFails ==
    /\ mpc = "compose"
    /\ idx = Len(batch)
    /\ mpc' = "crashed"
    /\ UNCHANGED <<gridSize, ufiles, i, batch, cols, rows, idx, canvas, written>>
    /\ UNCHANGED <<parseVars, dedupVars, labelVars>>

\* line 331: the loop is over
Finish ==
    /\ mpc = "loop"
    /\ i = total_collages(ufiles, gridSize)
    /\ mpc' = "done"
    /\ UNCHANGED <<gridSize, ufiles, i, batch, cols, rows, idx, canvas, written>>
    /\ UNCHANGED <<parseVars, dedupVars, labelVars>>

NextMain == BeginPage \/ PasteTile \/ TileUnreadable \/ SavePage \/ SaveFails \/ Finish

SpecMain == InitMain /\ [][NextMain]_vars

----------------------------------------------------------------------------
(* SpecLabel: draw_label on one caption and one tile box *)

\* the ellipsis character, one character of a str
ell == "..."

\* int(round(m * num / den)): Python rounds a half to the even neighbour
round_frac(m, num, den) ==
    LET q == (m * num) \div den
        r == (m * num) % den
    IN  IF 2 * r < den THEN q
        ELSE IF 2 * r > den THEN q + 1
        ELSE IF q % 2 = 0 THEN q ELSE q + 1

max2(a, b) == IF a >= b THEN a ELSE b

min2(a, b) == IF a <= b THEN a ELSE b

\* line 173
label_pad(bw, bh) == max2(3, round_frac(min2(bw, bh), 1, 40))

\* line 174
label_size(bw, bh) == max2(18, round_frac(min2(bw, bh), 4, 25))

\* the font size below which the text is not shrunk (line 184)
FLOOR_SIZE == 12

\* advance of a glyph in tenths of the font size: a narrow digit, a wide
\* letter, the ellipsis
GlyphUnits(c) == CASE c = "1" -> 5 [] c = "W" -> 9 [] c = ell -> 10 [] OTHER -> 6

RECURSIVE SumUnits(_)
SumUnits(s) == IF Len(s) = 0 THEN 0 ELSE GlyphUnits(s[1]) + SumUnits(Tail(s))

\* textbbox_size(s)[0] with the font load_font(sz) gave: a scalable font, or
\* the fixed bitmap font of ImageFont.load_default() whatever the size asked
text_width(s, kind, sz) ==
    IF kind = "truetype" THEN (SumUnits(s) * sz) \div 10 ELSE 6 * Len(s)

\* textbbox_size(s)[1]
text_height(s, kind, sz) ==
    IF Len(s) = 0 THEN 0 ELSE IF kind = "truetype" THEN sz ELSE 11

\* a fit test that refuses a text exactly as wide as the width available
fits_strict(width, avail) == width < avail

\* line 193: the measured width fits the width available
fits(width, avail) == width <= avail

\* text[:k] + ell (line 191)
with_ellipsis(s, k) == Take(s, k) \o <<ell>>

\* the sides a tile box may have: TILE_SIZE, and boxes too narrow for a caption
BoxSides == {8, 20, 30, 40, TILE_SIZE}

CaptionChars == {"1", "W"}

Captions == UNION {[1..k -> CaptionChars] : k \in 0..MaxText}

InitLabel ==
    /\ label \in Captions /\ text = label
    /\ w \in BoxSides /\ h \in BoxSides
    /\ fontKind \in {"truetype", "default"}
    /\ pad = 0 /\ size = 0 /\ size0 = 0 /\ maxw = 0 /\ tw = 0 /\ th = 0 /\ li = 0
    /\ lpc = "start"
    /\ ParseIdle /\ DedupIdle /\ MainIdle

\* lines 173-183: padding, first size, available width, first measure
Measure ==
    /\ lpc = "start"
    /\ pad' = label_pad(w, h)
    /\ size' = label_size(w, h)
    /\ size0' = size'
    /\ maxw' = w - 2 * pad'
    /\ tw' = text_width(text, fontKind, size')
    /\ th' = text_height(text, fontKind, size')
    /\ lpc' = "shrink"
    /\ UNCHANGED <<label, text, w, h, fontKind, li>>
    /\ UNCHANGED <<parseVars, dedupVars, mainVars>>

\* lines 184-187: one pass of the while loop
Shrink ==
    /\ lpc = "shrink"
    /\ tw > maxw /\ size > FLOOR_SIZE
    /\ size' = size - 1
    /\ tw' = text_width(text, fontKind, size')
    /\ th' = text_height(text, fontKind, size')
    /\ UNCHANGED <<label, text, w, h, fontKind, pad, size0, maxw, li, lpc>>
    /\ UNCHANGED <<parseVars, dedupVars, mainVars>>

\* lines 184, 188-190: the loop is left; the text fits, or is to be cut
ShrinkEnd ==
    /\ lpc = "shrink"
    /\ ~(tw > maxw /\ size > FLOOR_SIZE)
    /\ IF tw > maxw
       THEN li' = Len(text) /\ lpc' = "truncate"
       ELSE li' = li /\ lpc' = "done"
    /\ UNCHANGED <<label, text, w, h, fontKind, pad, size, size0, maxw, tw, th>>
    /\ UNCHANGED <<parseVars, dedupVars, mainVars>>

\* lines 190-194: one pass of the for loop, i = li
TryPrefix ==
    /\ lpc = "truncate"
    /\ li >= 1
    /\ LET t == with_ellipsis(text, li) IN
       /\ tw' = text_width(t, fontKind, size)
       /\ th' = text_height(t, fontKind, size)
       /\ IF fits(tw', maxw)
          THEN text' = t /\ li' = li /\ lpc' = "done"
          ELSE text' = text /\ li' = li - 1 /\ lpc' = "truncate"
    /\ UNCHANGED <<label, w, h, fontKind, pad, size, size0, maxw>>
    /\ UNCHANGED <<parseVars, dedupVars, mainVars>>

\* lines 195-196: the for loop ran out
EllipsisOnly ==
    /\ lpc = "truncate"
    /\ li = 0
    /\ text' = <<ell>>
    /\ tw' = text_width(text', fontKind, size)
    /\ th' = text_height(text', fontKind, size)
    /\ lpc' = "done"
    /\ UNCHANGED <<label, w, h, fontKind, pad, size, size0, maxw, li>>
    /\ UNCHANGED <<parseVars, dedupVars, mainVars>>

NextLabel == Measure \/ Shrink \/ ShrinkEnd \/ TryPrefix \/ EllipsisOnly

SpecLabel == InitLabel /\ [][NextLabel]_vars

----------------------------------------------------------------------------
(* Vocabulary of the properties *)

Range(s) == {s[k] : k \in 1..Len(s)}

Letters == Range(UPPER) \cup Range(LOWER)

\* the file name stem as written, nothing cut from it
RawStem(p) == splitext_root(basename(p))

\* group key and variant marker of every file name of the pool
PoolKey == [p \in {PathOf(stem) : stem \in StemPool} |-> parse_file_info(p).group_key]

PoolMarker == [p \in {PathOf(stem) : stem \in StemPool} |-> has_b_suffix(p)]

KeyOf(f) == PoolKey[f.path]

IsVariant(f) == PoolMarker[f.path]

KeysOf(fs) == {KeyOf(f) : f \in Range(fs)}

\* the places of fs holding a file of group k
PlacesOf(fs, k) == {j \in 1..Len(fs) : KeyOf(fs[j]) = k}

PrimaryPlaces(fs, k) == {j \in PlacesOf(fs, k) : ~IsVariant(fs[j])}

VariantPlaces(fs, k) == {j \in PlacesOf(fs, k) : IsVariant(fs[j])}

DistinctSizes(fs, places) ==
    \A a, b \in places : a # b => fs[a].size # fs[b].size

\* the file of the largest size among the given places of fs
LargestAt(fs, places) ==
    fs[CHOOSE a \in places : \A b \in places : fs[b].size <= fs[a].size]

\* every reordering of fs
Reorderings(fs) ==
    {[j \in 1..Len(fs) |-> fs[q[j]]] : q \in Permutations(1..Len(fs))}

str_upper(s) ==
    [k \in 1..Len(s) |->
        IF \E m \in 1..Len(LOWER) : LOWER[m] = s[k]
        THEN UPPER[CHOOSE m \in 1..Len(LOWER) : LOWER[m] = s[k]]
        ELSE s[k]]

Zeros(k) == [j \in 1..k |-> "0"]

\* the place of the '-' of a stem "Name-N": letters, one hyphen, digits; else 0
NameNumberCut(stem) ==
    LET d == find(stem, "-") IN
    IF /\ d > 1 /\ d < Len(stem)
       /\ \A k \in 1..(d - 1) : stem[k] \in Letters
       /\ \A k \in (d + 1)..Len(stem) : stem[k] \in Digits
    THEN d ELSE 0

\* the stems that differ from "Name-N" in letter case, zero padding and a
\* trailing "-2" only
Respellings(stem) ==
    LET d == NameNumberCut(stem)
        name == SubSeq(stem, 1, d - 1)
        num == SubSeq(stem, d + 1, Len(stem))
    IN  { nm \o <<"-">> \o Zeros(k) \o num \o suffix :
            nm \in {name, lower(name), str_upper(name)},
            k \in 0..MaxPad,
            suffix \in {<<>>, <<"-", "2">>} }

----------------------------------------------------------------------------
(* Properties of parse_file_info and has_b_suffix, under SpecParse *)

\* C3: two file names that differ only in the letter case of the collection
\* name, in the leading zeros of the item number and in a trailing "-2" get the
\* same group_key.
C3_SameGroupKey ==
    (ppc = "done" /\ NameNumberCut(RawStem(path)) > 0) =>
        \A v \in Respellings(RawStem(path)) :
            parse_file_info(PathOf(v)).group_key = info.group_key

\* C4: the variant marker is true exactly when the stem, its trailing "-2"
\* suffix removed, ends in 'b' or 'B'.
C4_MarkerIffTrailingB ==
    ppc = "done" =>
        (marker <=> endswith(lower(parse_stem(path)), <<"b">>))

\* C5: a numeric identifier's caption is the identifier without its leading
\* zeros, "0" when it is made of zeros only, and never empty.
C5_CaptionStripsZeros ==
    (ppc = "done" /\ isdigit(info.number)) =>
        /\ info.caption # <<>>
        /\ info.caption =
              (IF lstrip(info.number, "0") = <<>> THEN <<"0">>
               ELSE lstrip(info.number, "0"))

----------------------------------------------------------------------------
(* Properties of remove_duplicates, under SpecDedup *)

\* C1: of a group with several primaries of pairwise distinct sizes exactly one
\* file is kept, the largest primary, whatever the order of the input.
C1_LargestPrimaryKept ==
    dpc = "done" =>
        \A k \in KeysOf(files) :
            (/\ Cardinality(PrimaryPlaces(files, k)) > 1
             /\ DistinctSizes(files, PrimaryPlaces(files, k))) =>
                /\ Cardinality(PlacesOf(result, k)) = 1
                /\ \A j \in PlacesOf(result, k) :
                      /\ result[j] = LargestAt(files, PrimaryPlaces(files, k))
                      /\ ~IsVariant(result[j])
                /\ \A fs \in Reorderings(files) :
                      LET kept == remove_duplicates(fs) IN
                      /\ Cardinality(PlacesOf(kept, k)) = 1
                      /\ \A j \in PlacesOf(kept, k) :
                            \E m \in PlacesOf(result, k) : kept[j] = result[m]

\* a group of two primaries and a variant-marked file where the largest primary
\* does not come first
C1_Witness ==
    /\ dpc = "done"
    /\ \E k \in KeysOf(files) :
          /\ Cardinality(PrimaryPlaces(files, k)) > 1
          /\ DistinctSizes(files, PrimaryPlaces(files, k))
          /\ VariantPlaces(files, k) # {}
          /\ \E a, b \in PrimaryPlaces(files, k) : a < b /\ files[a].size < files[b].size
          /\ Cardinality(PlacesOf(result, k)) = 1

\* C2: no returned file is variant-marked; a group of variant-marked files only
\* gives no file and every group with a primary gives exactly one.
C2_OnlyPrimariesKept ==
    dpc = "done" =>
        /\ \A j \in 1..Len(result) : ~IsVariant(result[j])
        /\ \A k \in KeysOf(files) :
              Cardinality(PlacesOf(result, k)) =
                  (IF PrimaryPlaces(files, k) = {} THEN 0 ELSE 1)
        /\ KeysOf(result) \subseteq KeysOf(files)

\* one group of variant-marked files only next to a group with a primary
C2_Witness ==
    /\ dpc = "done"
    /\ \E k \in KeysOf(files) : PrimaryPlaces(files, k) = {}
    /\ \E k \in KeysOf(files) :
          PrimaryPlaces(files, k) # {} /\ VariantPlaces(files, k) # {}
    /\ Len(result) = 1

\* the primaries beyond the first, summed over the groups ks of fs
RECURSIVE DuplicatesIn(_, _)
DuplicatesIn(fs, ks) ==
    IF ks = {} THEN 0
    ELSE LET k == CHOOSE y \in ks : TRUE
             extra == IF PrimaryPlaces(fs, k) = {} THEN 0
                      ELSE Cardinality(PrimaryPlaces(fs, k)) - 1
         IN  extra + DuplicatesIn(fs, ks \ {k})

DuplicatesOf(fs) == DuplicatesIn(fs, KeysOf(fs))

\* C9: the reported count of excluded variants is the number of variant-marked
\* input files, the reported count of duplicates the primaries beyond the first
\* of each group, and kept + duplicates + variants is the number of input files.
C9_CountsAddUp ==
    dpc = "done" =>
        /\ b_files_removed = Cardinality({j \in 1..Len(files) : IsVariant(files[j])})
        /\ duplicates_removed = DuplicatesOf(files)
        /\ Len(result) + duplicates_removed + b_files_removed = Len(files)

----------------------------------------------------------------------------
(* Properties of main and create_collage, under SpecMain *)

\* the least r with r * c >= n
LeastRows(n, c) == CHOOSE r \in 0..n : r * c >= n /\ \A q \in 0..(r - 1) : q * c < n

\* the files of the pages, in page order
RECURSIVE FilesOfPages(_)
FilesOfPages(ps) ==
    IF Len(ps) = 0 THEN <<>>
    ELSE FilesOfPages(SubSeq(ps, 1, Len(ps) - 1)) \o
         [k \in 1..Len(ps[Len(ps)].tiles) |-> ps[Len(ps)].tiles[k].file]

\* C6: a full batch gets GRID_SIZE columns, a smaller batch of at most four
\* files min(n, 2), any other GRID_SIZE; there is at least one column and the
\* rows are the least number that holds the batch.
C6_ColumnsAndRows ==
    mpc = "compose" =>
        LET n == Len(batch) IN
        /\ 1 <= n /\ n <= gridSize * gridSize
        /\ cols = (IF n = gridSize * gridSize THEN gridSize
                   ELSE IF n <= 4 THEN (IF n <= 2 THEN n ELSE 2)
                   ELSE gridSize)
        /\ cols >= 1
        /\ rows = LeastRows(n, cols)
        /\ rows * cols >= n
        /\ n = 3 => (cols = 2 /\ rows = 2)
        /\ n = 1 => (cols = 1 /\ rows = 1)

\* a short last batch of three files
C6_Witness ==
    mpc = "compose" /\ Len(batch) = 3 /\ cols = 2 /\ rows = 2 /\ gridSize = GRID_SIZE

\* C7: a finished run has written ceil(N / C) pages, all full but the last,
\* which holds 1..C files, and the pages in order hold the list in its order;
\* 27 files at GRID_SIZE 5 give 25 files at 5x5 and 2 files at 2 columns, 1 row.
C7_Pagination ==
    (mpc = "done" /\ Len(ufiles) >= 1) =>
        LET C == gridSize * gridSize
            N == Len(ufiles)
        IN  /\ Len(written) = LeastRows(N, C)
            /\ \A k \in 1..(Len(written) - 1) : Len(written[k].tiles) = C
            /\ Len(written[Len(written)].tiles) \in 1..C
            /\ FilesOfPages(written) = ufiles
            /\ (gridSize = 5 /\ N = 27) =>
                  /\ Len(written) = 2
                  /\ Len(written[1].tiles) = 25
                  /\ written[1].cols = 5 /\ written[1].rows = 5
                  /\ Len(written[2].tiles) = 2
                  /\ written[2].cols = 2 /\ written[2].rows = 1

\* the run of 27 files at the shipped grid size
C7_Witness ==
    /\ mpc = "done" /\ gridSize = GRID_SIZE /\ Len(ufiles) = 27
    /\ Len(written) = 2

\* what holds of the pages written so far in every state of a run
C10_State ==
    /\ \A k \in 1..Len(written) :
          /\ written[k].index = k
          /\ [t \in 1..Len(written[k].tiles) |-> written[k].tiles[t].file] =
                page_batch(ufiles, gridSize, k - 1)
    /\ mpc \in {"compose", "crashed"} => (Len(written) = i /\ idx <= Len(batch))
    /\ mpc = "compose" =>
          [t \in 1..Len(canvas) |-> canvas[t].file] = SubSeq(batch, 1, idx)

\* what holds of every step of a run
C10_Step ==
    /\ mpc # "crashed"
    /\ \/ written' = written
       \/ /\ Len(written') = Len(written) + 1
          /\ SubSeq(written', 1, Len(written)) = written
          /\ idx = Len(batch)
          /\ written'[Len(written')].tiles = canvas
    /\ (mpc = "compose" /\ mpc' = "compose") => (idx' = idx + 1 /\ Len(canvas') = idx')

\* C10: pages are written in increasing order from 1, each composed in full
\* before it is written and before the next is begun; when a tile cannot be
\* read or a page cannot be written the run ends there, the pages written
\* before stay as they are and no later page is written.
C10_SequentialFailStop == []C10_State /\ [][C10_Step]_vars

\* a run that ended on an unreadable tile of its second page
C10_Witness ==
    mpc = "crashed" /\ Len(written) = 1 /\ idx >= 1 /\ idx < Len(batch)

----------------------------------------------------------------------------
(* Properties of draw_label, under SpecLabel *)

\* the lengths k >= 1 for which label[:k] + ellipsis fits at the floor size
FittingPrefixes ==
    {k \in 1..Len(label) :
        text_width(Take(label, k) \o <<ell>>, fontKind, FLOOR_SIZE) <= maxw}

\* C8: a caption too wide at the floor size is shown as its longest prefix that
\* fits together with the ellipsis, a strict prefix, no wider than the width
\* available; as the ellipsis alone when no non-empty prefix fits; and the size
\* the shrinking loop ends with lies between the floor and the first size.
C8_EllipsisFit ==
    /\ lpc \in {"shrink", "truncate", "done"} =>
          (FLOOR_SIZE <= size /\ size <= size0 /\ size0 = label_size(w, h))
    /\ (lpc = "done" /\ text_width(label, fontKind, FLOOR_SIZE) > maxw) =>
          /\ size = FLOOR_SIZE
          /\ IF FittingPrefixes # {}
             THEN LET k == CHOOSE a \in FittingPrefixes :
                                \A b \in FittingPrefixes : b <= a
                  IN  /\ k < Len(label)
                      /\ text = Take(label, k) \o <<ell>>
                      /\ tw = text_width(text, fontKind, size)
                      /\ tw <= maxw
             ELSE text = <<ell>>

\* a caption of four characters cut to its first two, in a box where a shorter
\* caption is shown as the ellipsis alone
C8_Witness ==
    /\ lpc = "done"
    /\ text_width(label, fontKind, FLOOR_SIZE) > maxw
    /\ Len(label) = 4
    /\ text = Take(label, 2) \o <<ell>>
    /\ tw = maxw

====
